---- MODULE Spec2Model ----
(***************************************************************************)
(* Model of turbo_transformers/layers/multi_headed_attention.cpp:          *)
(* MultiHeadedAttention::operator() run by several caller threads that     *)
(* share the file-static mutex and the function-static TempTensor scratch  *)
(* slots.  Tensor contents are symbolic terms: a kernel builds the term of *)
(* its result from the terms of the operands it reads, so that stale or    *)
(* uninitialised scratch content that reaches a result shows in the term.  *)
(***************************************************************************)
EXTENDS Integers, Sequences, FiniteSets, TLC

\* ------------------------------------------------------------------ bounds
MaxCalls == 2

Threads == {1, 2}
NoThread == 0
Ctxs == {"c0", "c1"}

\* ------------------------------------------------------- tensor data model
\* the number of elements of a tensor of the given shape
NumelOf[shape \in Seq(Nat)] ==
  IF shape = <<>> THEN 0
  ELSE IF Len(shape) = 1 THEN shape[1]
  ELSE shape[1] * NumelOf[Tail(shape)]

Numel(shape) == NumelOf[shape]

Uninit == <<"uninit">>

Stale(v) == IF v[1] \in {"stale", "uninit"} THEN v ELSE <<"stale", v>>

\* Besides shape, device context, content and capacity a tensor carries the
\* history of its storage: by, the number of the call whose kernel wrote the
\* content (0: none); wn, the number of elements written since the storage
\* was allocated; ws, whether it was written after its latest Reshape;
\* unread, whether the content written last has not been read yet.

\* a tensor created empty: core::Tensor(nullptr), a fresh TempTensor entry
EmptyTensor(c) ==
  [shape |-> <<>>, ctx |-> c, val |-> Uninit, cap |-> 0,
   by |-> 0, wn |-> 0, ws |-> FALSE, unread |-> FALSE]

\* a caller's tensor holding the data named n
T(shape, c, n) ==
  [shape |-> shape, ctx |-> c, val |-> <<"in", n>>, cap |-> Numel(shape),
   by |-> 0, wn |-> Numel(shape), ws |-> TRUE, unread |-> FALSE]

\* Tensor::Reshape<float>(shape, devtype, devid): storage is reused when it
\* is on the same device and large enough (the content stays, read under the
\* new shape), otherwise it is allocated anew and nothing is copied
Reshape(X, shape, c) ==
  IF X.ctx = c /\ Numel(shape) <= X.cap
  THEN [shape |-> shape, ctx |-> c, cap |-> X.cap,
        val |-> IF Numel(shape) = Numel(X.shape) THEN X.val ELSE Stale(X.val),
        by |-> X.by, wn |-> X.wn, ws |-> FALSE, unread |-> X.unread]
  ELSE [shape |-> shape, ctx |-> c, cap |-> Numel(shape), val |-> Uninit,
        by |-> 0, wn |-> 0, ws |-> FALSE, unread |-> FALSE]

\* a kernel writes every element of X
Write(X, v) ==
  [X EXCEPT !.val = v, !.wn = Numel(X.shape), !.ws = TRUE, !.unread = TRUE]

Last(s) == s[Len(s)]

\* ------------------------------------------------ module instance, weights
\* one attention module: num_attention_heads_ and the weight bundle, whose
\* matrices are [hidden, hidden] (the fused one [hidden, 3*hidden])
InstA == [id |-> "A", heads |-> 2, hidden |-> 4]
\* a module built with a head count that does not divide the hidden size:
\* the shape report of lines 220-233 is the only look at the configuration
InstB == [id |-> "B", heads |-> 3, hidden |-> 4]
Instances == {InstA, InstB}

W(i, n) == <<"w", i.id, n>>
\* the fused weight and bias are the concatenation of the separate ones
QKVWeight(i) == <<"cat3", W(i, "q_weight"), W(i, "k_weight"), W(i, "v_weight")>>
QKVBias(i) == <<"cat3", W(i, "q_bias"), W(i, "k_bias"), W(i, "v_bias")>>

One == <<"one">>
\* 1.0f / std::sqrt(static_cast<float>(size_per_head))
Scaler(size_per_head) == <<"rsqrt", size_per_head>>

\* ----------------------------------------------------------------- kernels
\* out = alpha * A * B + beta * out
MM(a, b, alpha, o, beta) ==
  IF beta = 0 THEN <<"mm", a, b, alpha>> ELSE <<"mma", a, b, alpha, o>>

MatMulVal(a, b, alpha, o, beta) ==
  IF beta = 0 /\ b[1] = "cat3"
  THEN <<"cat3", MM(a, b[2], alpha, o, beta), MM(a, b[3], alpha, o, beta),
         MM(a, b[4], alpha, o, beta)>>
  ELSE MM(a, b, alpha, o, beta)

\* A [.., k] times a weight [k, cols] into out: rows(A) * cols elements
MatMulOk(A, k, cols, O) ==
  /\ A.ctx = O.ctx
  /\ A.shape # <<>>
  /\ Last(A.shape) = k
  /\ Numel(O.shape) = (Numel(A.shape) \div k) * cols

BatchMatMulVal(a, b, tb, alpha, o, beta) ==
  IF beta = 0 THEN <<"bmm", a, b, tb, alpha>>
  ELSE <<"bmma", a, b, tb, alpha, o>>

\* A [b, n, m, k] times B [b, n, k, p] (B [b, n, p, k] when transposed)
BatchMatMulOk(A, B, tb, O) ==
  /\ A.ctx = B.ctx /\ A.ctx = O.ctx
  /\ Len(A.shape) = 4 /\ Len(B.shape) = 4 /\ Len(O.shape) = 4
  /\ A.shape[1] = B.shape[1] /\ A.shape[2] = B.shape[2]
  /\ A.shape[4] = (IF tb THEN B.shape[4] ELSE B.shape[3])
  /\ O.shape = <<A.shape[1], A.shape[2], A.shape[3],
                 IF tb THEN B.shape[3] ELSE B.shape[4]>>

LayerNormVal(x, i) == <<"ln", x, W(i, "layernorm_gamma"), W(i, "layernorm_beta")>>
LayerNormOk(X, i) == X.shape # <<>> /\ Last(X.shape) = i.hidden

CopyOk(S, D) == Numel(S.shape) = Numel(D.shape)

SoftmaxVal(s, m, scale) == <<"softmax", s, m, scale>>
SoftmaxOk(S, M) == S.ctx = M.ctx /\ Len(S.shape) = 4

AddBiasTransposeVal(x, b) == <<"abt", x, b>>
\* in [b, s, n, h] to out [b, n, s, h]
AddBiasTransposeOk(X, O) ==
  /\ X.ctx = O.ctx
  /\ Len(X.shape) = 4 /\ Len(O.shape) = 4
  /\ O.shape = <<X.shape[1], X.shape[3], X.shape[2], X.shape[4]>>

SplitAddBiasTransposeVal(x, b) ==
  IF x[1] = "cat3" /\ b[1] = "cat3"
  THEN <<"stack3", AddBiasTransposeVal(x[2], b[2]),
         AddBiasTransposeVal(x[3], b[3]), AddBiasTransposeVal(x[4], b[4])>>
  ELSE <<"sabt", x, b>>
\* in [3, b, s, H] to out [3, b, n, s, h]
SplitAddBiasTransposeOk(O, X) ==
  /\ X.ctx = O.ctx
  /\ Len(X.shape) = 4 /\ Len(O.shape) = 5
  /\ Numel(X.shape) = Numel(O.shape)

\* Tensor::operator[](i): the view of sub-tensor i of the leading dimension
IndexVal(v, i) == IF v[1] = "stack3" THEN v[i + 2] ELSE <<"idx", v, i>>
Index(X, i) ==
  [shape |-> Tail(X.shape), ctx |-> X.ctx, val |-> IndexVal(X.val, i),
   cap |-> Numel(Tail(X.shape)), by |-> X.by,
   wn |-> IF X.wn >= Numel(X.shape) THEN Numel(Tail(X.shape)) ELSE 0,
   ws |-> X.ws, unread |-> X.unread]

TransposeVal(x) == <<"tfs", x>>
\* in [b, n, s, h] to out [b, s, n * h]
TransposeOk(O, X) ==
  /\ X.ctx = O.ctx
  /\ Len(X.shape) = 4 /\ Len(O.shape) = 3
  /\ O.shape = <<X.shape[1], X.shape[3], X.shape[2] * X.shape[4]>>

AddBiasVal(o, b) == <<"addb", o, b>>
AddBiasOk(O, i) == O.shape # <<>> /\ Last(O.shape) = i.hidden
AddInputBiasVal(o, q, b) == <<"addib", o, q, b>>
AddInputBiasOk(O, Q, i) ==
  /\ O.ctx = Q.ctx
  /\ Numel(O.shape) = Numel(Q.shape)
  /\ O.shape # <<>> /\ Last(O.shape) = i.hidden

\* ------------------------------------------------------------ call inputs
Mask(c) == T(<<1, 1, 1>>, c, "m")

Req(i, k, v, q, m, a, pre, post) ==
  [inst |-> i, key |-> k, value |-> v, query |-> q, mask |-> m,
   attn_type |-> a, pre_layernorm |-> pre, post_add |-> post]

QX == T(<<1, 2, 4>>, "c0", "x")
QW == T(<<2, 1, 4>>, "c0", "w")
QU == T(<<1, 2, 4>>, "c1", "u")
KY == T(<<1, 1, 4>>, "c0", "y")
VZ == T(<<1, 1, 4>>, "c0", "z")

\* key, value and query are one tensor; every variant and flag
Flags == {<<FALSE, FALSE>>, <<FALSE, TRUE>>, <<TRUE, TRUE>>}
AliasedCalls ==
  {Req(InstA, QX, QX, QX, Mask("c0"), a, f[1], f[2]) :
     a \in {"self", "context"}, f \in Flags}

\* key and value of their own, with another sequence length than the query
CrossCalls ==
  {Req(InstA, KY, VZ, QX, Mask("c0"), "context", f, f) : f \in BOOLEAN}
  \cup {Req(InstA, KY, VZ, QX, Mask("c0"), "self", FALSE, FALSE)}

\* another shape, another device context
OtherShapeCalls ==
  { Req(InstA, QW, QW, QW, Mask("c0"), "self", FALSE, FALSE),
    Req(InstA, QU, QU, QU, Mask("c1"), "self", FALSE, TRUE) }

\* calls that the checks of lines 38-69 let through although their operands
\* do not fit together
MismatchedCalls ==
  { Req(InstA, T(<<1, 2, 4>>, "c0", "y"), T(<<1, 2, 2>>, "c0", "z"), QX,
        Mask("c0"), "context", FALSE, FALSE),
    Req(InstA, KY, T(<<1, 2, 4>>, "c0", "z"), QX,
        Mask("c0"), "context", FALSE, FALSE),
    Req(InstA, T(<<2, 2, 4>>, "c0", "y"), T(<<2, 2, 4>>, "c0", "z"), QX,
        Mask("c0"), "context", FALSE, FALSE),
    Req(InstA, QU, QU, QX, Mask("c1"), "context", FALSE, FALSE) }

\* calls that one of the checks of lines 38-69 stops
InvalidCalls ==
  { Req(InstA, T(<<2, 4>>, "c0", "y"), VZ, QX, Mask("c0"), "context", FALSE, FALSE),
    Req(InstA, KY, T(<<2, 4>>, "c0", "z"), QX, Mask("c0"), "context", FALSE, FALSE),
    Req(InstA, KY, VZ, T(<<2, 4>>, "c0", "x"), Mask("c0"), "self", FALSE, FALSE),
    Req(InstA, T(<<1, 2, 4>>, "c0", "y"), T(<<2, 2, 4>>, "c0", "z"), QX,
        Mask("c0"), "context", FALSE, FALSE),
    Req(InstA, QX, QX, QX, Mask("c1"), "self", FALSE, FALSE),
    Req(InstA, QX, QX, QX, Mask("c0"), "cross", FALSE, TRUE) }

\* a call on the module of three heads and hidden size 4
UnevenCalls ==
  { Req(InstB, QX, QX, QX, Mask("c0"), "context", FALSE, FALSE) }

Requests ==
  AliasedCalls \cup CrossCalls \cup OtherShapeCalls \cup MismatchedCalls
  \cup InvalidCalls \cup UnevenCalls

\* ------------------------------------------------------------------- state
Slots == {"q_out1", "v_out1", "k_out1", "q_out2", "v_out2", "k_out2",
          "qkv_out1", "qkv_out2", "att_score", "context_layer",
          "self_attr_out"}

VARIABLES
  pc,      \* per thread: where it is in operator()
  args,    \* per thread: the tensors and flags of its call
  out,     \* per thread: the caller's output tensor
  loc,     \* per thread: the locals of operator()
  lock,    \* the holder of the static mutex_, or NoThread
  slot,    \* the static TempTensors: slot name -> device context -> tensor
  kcall,   \* the kernel call issued last: its name, operands and accesses
  entry,   \* per thread: its arguments and output tensor as the call began
  log,     \* the calls that have ended: arguments, outcome, output tensor
  ncalls,  \* the number of calls begun
  heap     \* the number of core::Tensor objects made by `new`, not deleted

vars == <<pc, args, out, loc, lock, slot, kcall, entry, log, ncalls, heap>>

NoLoc ==
  [batch_size |-> 0, query_seq_length |-> 0, key_seq_length |-> 0,
   hidden_size |-> 0, size_per_head |-> 0, devctx |-> "c0",
   layernormed_query |-> EmptyTensor("c0"),
   q_ptr |-> <<>>, k_ptr |-> <<>>, v_ptr |-> <<>>]

NoKernel ==
  [name |-> "none", ctxs |-> {}, id |-> 0, at |-> "idle", rd |-> {},
   wr |-> <<>>, written |-> TRUE, settled |-> TRUE]

Init ==
  /\ pc = [t \in Threads |-> "idle"]
  /\ args = [t \in Threads |-> CHOOSE r \in AliasedCalls : TRUE]
  /\ out = [t \in Threads |-> EmptyTensor("c0")]
  /\ loc = [t \in Threads |-> NoLoc]
  /\ lock = NoThread
  /\ slot = [s \in Slots |-> [c \in Ctxs |-> EmptyTensor(c)]]
  /\ kcall = NoKernel
  /\ entry = [t \in Threads |->
               [args |-> CHOOSE r \in AliasedCalls : TRUE, out |-> EmptyTensor("c0")]]
  /\ log = <<>>
  /\ ncalls = 0
  /\ heap = 0

\* ---------------------------------------------------- entering and leaving
\* a caller invokes operator() and blocks on the mutex (line 37)
Call(t) ==
  /\ pc[t] = "idle"
  /\ ncalls < MaxCalls
  /\ pc' = [pc EXCEPT ![t] = "lock"]
  /\ ncalls' = ncalls + 1
  /\ UNCHANGED <<args, out, loc, lock, slot, kcall, entry, log, heap>>

\* the mutex taken without waiting for it
MutexFreeMut == TRUE

MutexFree == lock = NoThread

\* std::lock_guard<std::mutex> g(mutex_); the parameters are references,
\* read from here on: the call's tensors are what they are as it gets the
\* mutex, one of the calls R
AcquireOf(t, R) ==
  /\ pc[t] = "lock"
  /\ MutexFree
  /\ lock' = t
  /\ \E r \in R :
       /\ args' = [args EXCEPT ![t] = r]
       /\ entry' = [entry EXCEPT ![t] = [args |-> r, out |-> out[t]]]
  /\ loc' = [loc EXCEPT ![t] = NoLoc]
  /\ pc' = [pc EXCEPT ![t] = "validate"]
  /\ UNCHANGED <<out, slot, kcall, log, ncalls, heap>>

Acquire(t) == AcquireOf(t, Requests)

\* the mutex unlocked by hand before `return` only: an exception keeps it
LeaveMut(t, status, o) ==
  /\ pc' = [pc EXCEPT ![t] = "idle"]
  /\ lock' = IF status = "ok" THEN NoThread ELSE lock
  /\ log' = Append(log, [thread |-> t, call |-> entry[t].args,
                         before |-> entry[t].out, args |-> args[t],
                         status |-> status, out |-> o])
  /\ UNCHANGED <<entry, heap>>

\* the end of the call, by return or by exception: g's destructor unlocks
Leave(t, status, o) ==
  /\ pc' = [pc EXCEPT ![t] = "idle"]
  /\ lock' = NoThread
  /\ log' = Append(log, [thread |-> t, call |-> entry[t].args,
                         before |-> entry[t].out, args |-> args[t],
                         status |-> status, out |-> o])
  /\ UNCHANGED <<entry, heap>>

Goto(t, l) ==
  /\ pc' = [pc EXCEPT ![t] = l]
  /\ UNCHANGED <<lock, entry, log, heap>>

\* ---------------------------------------------------------------- validate
IsContext(a) == a = "context"
\* `else` where line 65 has `else if (attn_type == "self")`
IsSelfMut(a) == a # "context"
IsSelf(a) == a = "self"

\* lines 38-69: the first check that fails, or "ok"
ValidationError(r) ==
  IF r.key.ctx # r.mask.ctx THEN "DeviceMismatch"
  ELSE IF Len(r.key.shape) # 3 THEN "KeyRank"
  ELSE IF Len(r.value.shape) # 3 THEN "ValueRank"
  ELSE IF Len(r.query.shape) # 3 THEN "QueryRank"
  ELSE IF r.key.shape[1] # r.value.shape[1] THEN "KeyValueMismatch"
  ELSE IF ~IsContext(r.attn_type) /\ ~IsSelf(r.attn_type) THEN "InvalidArgument"
  ELSE "ok"

ValidationErrors ==
  {"DeviceMismatch", "KeyRank", "ValueRank", "QueryRank", "KeyValueMismatch",
   "InvalidArgument"}

\* the key's sequence length taken for both variants
KeySeqLengthMut(r) == r.key.shape[2]

\* lines 62-66
KeySeqLength(r) ==
  IF IsContext(r.attn_type) THEN r.key.shape[2] ELSE r.query.shape[2]

\* lines 58-75
Locals(r) ==
  [NoLoc EXCEPT
     !.batch_size = r.query.shape[1],
     !.query_seq_length = r.query.shape[2],
     !.key_seq_length = KeySeqLength(r),
     !.hidden_size = r.query.shape[3],
     !.size_per_head = r.query.shape[3] \div r.inst.heads,
     !.devctx = r.query.ctx]

\* the output reshaped to the query's shape ahead of the checks
ValidateMut(t) ==
  /\ pc[t] = "validate"
  /\ LET e == ValidationError(args[t])
         O == Reshape(out[t], args[t].query.shape, args[t].query.ctx)
     IN /\ out' = [out EXCEPT ![t] = O]
        /\ IF e # "ok"
           THEN Leave(t, e, O) /\ UNCHANGED loc
           ELSE /\ loc' = [loc EXCEPT ![t] = Locals(args[t])]
                /\ Goto(t, IF IsContext(args[t].attn_type)
                           THEN "ctx_alloc" ELSE "branch")
  /\ UNCHANGED <<args, slot, kcall, ncalls>>

Validate(t) ==
  /\ pc[t] = "validate"
  /\ LET e == ValidationError(args[t])
     IN IF e # "ok"
        THEN Leave(t, e, out[t]) /\ UNCHANGED loc
        ELSE /\ loc' = [loc EXCEPT ![t] = Locals(args[t])]
             /\ Goto(t, IF IsContext(args[t].attn_type)
                        THEN "ctx_alloc" ELSE "branch")
  /\ UNCHANGED <<args, out, slot, kcall, ncalls>>

\* lines 141, 170-172
Branch(t) ==
  /\ pc[t] = "branch"
  /\ IF IsSelf(args[t].attn_type)
     THEN Goto(t, "self_alloc")
     ELSE Leave(t, "InvalidArgument", out[t])
  /\ UNCHANGED <<args, out, loc, slot, kcall, ncalls>>

\* ------------------------------------------------------------ kernel calls
Upd(s, n, c, X) == [s EXCEPT ![n][c] = X]

\* the calls run one after the other (line 37): the number of the call that
\* holds the mutex
CallId == Len(log) + 1

\* the scratch tensor named by <<slot, context, part>>: the whole tensor
\* (part 0) or the view of one of its parts
Operand(s, r) ==
  IF r[3] = 0 THEN s[r[1]][r[2]] ELSE Index(s[r[1]][r[2]], r[3] - 1)

\* the record of a kernel call of thread t: rd names the scratch tensors it
\* reads and wr the one it writes, R are the scratch tensors read as they
\* are when the call is issued; a kernel that refuses its operands reads
\* nothing
KCall(t, name, ops, rd, wr, R, ok) ==
  [name |-> name, ctxs |-> {X.ctx : X \in ops}, id |-> CallId,
   at |-> pc[t], rd |-> rd, wr |-> wr,
   written |-> ok => \A X \in R : X.by = CallId /\ X.wn >= Numel(X.shape),
   settled |-> ok => \A X \in R : X.by = CallId /\ X.ws]

\* the slots after a kernel of call id has run: the tensor written holds
\* that call's content, the tensors read whole have been read
Stamp(s, rd, wr, id) ==
  [n \in Slots |-> [c \in Ctxs |->
     IF <<n, c, 0>> = wr THEN [s[n][c] EXCEPT !.by = id]
     ELSE IF <<n, c, 0>> \in rd THEN [s[n][c] EXCEPT !.unread = FALSE]
     ELSE s[n][c]]]

\* a kernel call on the operand tensors ops that reads the scratch tensors
\* rd and writes the scratch slot wr: the slots are `before` when it is
\* issued and `after` when it has run; a kernel that refuses its operands
\* throws, and the exception leaves operator()
Kernel(t, name, rd, wr, ops, ok, before, after, next) ==
  /\ kcall' = KCall(t, name, ops, rd, wr, {Operand(before, r) : r \in rd}, ok)
  /\ slot' = IF ok THEN Stamp(after, rd, wr, CallId) ELSE before
  /\ IF ok THEN Goto(t, next) ELSE Leave(t, "KernelError", out[t])
  /\ UNCHANGED <<args, out, loc, ncalls>>

\* *q_ptr, *k_ptr, *v_ptr: a scratch tensor, or the view of one of its parts
Deref(p) == Operand(slot, p)

\* ---------------------------------------------------------- context branch
\* lines 88-100
CtxAlloc(t) ==
  /\ pc[t] = "ctx_alloc"
  /\ LET l == loc[t]
         d == l.devctx
         vc == args[t].value.ctx
         kc == args[t].key.ctx
         qs == <<l.batch_size, l.query_seq_length, l.hidden_size>>
         ks == <<l.batch_size, l.key_seq_length, l.hidden_size>>
     IN slot' = [slot EXCEPT
                   !["q_out1"][d] = Reshape(@, qs, d),
                   !["v_out1"][vc] = Reshape(@, ks, d),
                   !["k_out1"][kc] = Reshape(@, ks, d)]
  /\ Goto(t, IF args[t].pre_layernorm THEN "ctx_copy" ELSE "ctx_projq")
  /\ UNCHANGED <<args, out, loc, kcall, ncalls>>

\* lines 103-105
CtxCopy(t) ==
  /\ pc[t] = "ctx_copy"
  /\ LET l == loc[t]
         d == l.devctx
         q2 == Reshape(slot["q_out2"][d],
                       <<l.batch_size, l.query_seq_length, l.hidden_size>>, d)
     IN Kernel(t, "Copy", {}, <<"q_out2", d, 0>>, {args[t].query, q2},
               CopyOk(args[t].query, q2),
               Upd(slot, "q_out2", d, q2),
               Upd(slot, "q_out2", d, Write(q2, args[t].query.val)),
               "ctx_ln")

\* the layer normalisation run on the caller's query instead of its copy
CtxLayerNormMut(t) ==
  /\ pc[t] = "ctx_ln"
  /\ kcall' = KCall(t, "LayerNorm", {args[t].query}, {}, <<>>, {}, TRUE)
  /\ args' = [args EXCEPT ![t].query.val = LayerNormVal(@, args[t].inst)]
  /\ Goto(t, "ctx_projq")
  /\ UNCHANGED <<out, loc, slot, ncalls>>

\* lines 106-108
CtxLayerNorm(t) ==
  /\ pc[t] = "ctx_ln"
  /\ LET d == loc[t].devctx
         q2 == slot["q_out2"][d]
     IN Kernel(t, "LayerNorm", {<<"q_out2", d, 0>>}, <<"q_out2", d, 0>>, {q2},
               LayerNormOk(q2, args[t].inst), slot,
               Upd(slot, "q_out2", d,
                   Write(q2, LayerNormVal(q2.val, args[t].inst))),
               "ctx_projq")

\* lines 102, 109-112: the operand of the query projection
CtxQuerySource(t) ==
  IF args[t].pre_layernorm THEN slot["q_out2"][loc[t].devctx]
  ELSE args[t].query

\* the scratch tensors that the query projection reads
CtxQueryReads(t) ==
  IF args[t].pre_layernorm THEN {<<"q_out2", loc[t].devctx, 0>>} ELSE {}

CtxProjQ(t) ==
  /\ pc[t] = "ctx_projq"
  /\ LET d == loc[t].devctx
         i == args[t].inst
         A == CtxQuerySource(t)
         O == slot["q_out1"][d]
     IN Kernel(t, "MatMul", CtxQueryReads(t), <<"q_out1", d, 0>>, {A, O},
               MatMulOk(A, i.hidden, i.hidden, O), slot,
               Upd(slot, "q_out1", d,
                   Write(O, MatMulVal(A.val, W(i, "q_weight"), One, O.val, 0))),
               "ctx_projk")

\* the key projection written to v_out1, k_out1 left as it was
CtxProjKMut(t) ==
  /\ pc[t] = "ctx_projk"
  /\ LET vc == args[t].value.ctx
         i == args[t].inst
         A == args[t].key
         O == slot["v_out1"][vc]
     IN Kernel(t, "MatMul", {}, <<"v_out1", vc, 0>>, {A, O},
               MatMulOk(A, i.hidden, i.hidden, O), slot,
               Upd(slot, "v_out1", vc,
                   Write(O, MatMulVal(A.val, W(i, "k_weight"), One, O.val, 0))),
               "ctx_projv")

\* line 113
CtxProjK(t) ==
  /\ pc[t] = "ctx_projk"
  /\ LET kc == args[t].key.ctx
         i == args[t].inst
         A == args[t].key
         O == slot["k_out1"][kc]
     IN Kernel(t, "MatMul", {}, <<"k_out1", kc, 0>>, {A, O},
               MatMulOk(A, i.hidden, i.hidden, O), slot,
               Upd(slot, "k_out1", kc,
                   Write(O, MatMulVal(A.val, W(i, "k_weight"), One, O.val, 0))),
               "ctx_projv")

\* line 114
CtxProjV(t) ==
  /\ pc[t] = "ctx_projv"
  /\ LET vc == args[t].value.ctx
         i == args[t].inst
         A == args[t].value
         O == slot["v_out1"][vc]
     IN Kernel(t, "MatMul", {}, <<"v_out1", vc, 0>>, {A, O},
               MatMulOk(A, i.hidden, i.hidden, O), slot,
               Upd(slot, "v_out1", vc,
                   Write(O, MatMulVal(A.val, W(i, "v_weight"), One, O.val, 0))),
               "ctx_reshape")

\* lines 116-134
CtxReshape(t) ==
  /\ pc[t] = "ctx_reshape"
  /\ LET l == loc[t]
         d == l.devctx
         vc == args[t].value.ctx
         kc == args[t].key.ctx
         n == args[t].inst.heads
         qs == <<l.batch_size, l.query_seq_length, n, l.size_per_head>>
         ks == <<l.batch_size, l.key_seq_length, n, l.size_per_head>>
         qh == <<l.batch_size, n, l.query_seq_length, l.size_per_head>>
         kh == <<l.batch_size, n, l.key_seq_length, l.size_per_head>>
     IN slot' = [slot EXCEPT
                   !["q_out1"][d] = Reshape(@, qs, d),
                   !["v_out1"][vc] = Reshape(@, ks, d),
                   !["k_out1"][kc] = Reshape(@, ks, d),
                   !["q_out2"][d] = Reshape(@, qh, d),
                   !["v_out2"][vc] = Reshape(@, kh, d),
                   !["k_out2"][kc] = Reshape(@, kh, d)]
  /\ Goto(t, "ctx_abtq")
  /\ UNCHANGED <<args, out, loc, kcall, ncalls>>

\* line 135
CtxBiasQ(t) ==
  /\ pc[t] = "ctx_abtq"
  /\ LET d == loc[t].devctx
         X == slot["q_out1"][d]
         O == slot["q_out2"][d]
     IN Kernel(t, "AddBiasTransposeForScore", {<<"q_out1", d, 0>>},
               <<"q_out2", d, 0>>, {X, O}, AddBiasTransposeOk(X, O), slot,
               Upd(slot, "q_out2", d,
                   Write(O, AddBiasTransposeVal(X.val, W(args[t].inst, "q_bias")))),
               "ctx_abtv")

\* the head-major value written to q_out2, over the head-major query
CtxBiasVMut(t) ==
  /\ pc[t] = "ctx_abtv"
  /\ LET vc == args[t].value.ctx
         X == slot["v_out1"][vc]
         O == slot["q_out2"][vc]
     IN Kernel(t, "AddBiasTransposeForScore", {<<"v_out1", vc, 0>>},
               <<"q_out2", vc, 0>>, {X, O}, AddBiasTransposeOk(X, O), slot,
               Upd(slot, "q_out2", vc,
                   Write(O, AddBiasTransposeVal(X.val, W(args[t].inst, "v_bias")))),
               "ctx_abtk")

\* line 136
CtxBiasV(t) ==
  /\ pc[t] = "ctx_abtv"
  /\ LET vc == args[t].value.ctx
         X == slot["v_out1"][vc]
         O == slot["v_out2"][vc]
     IN Kernel(t, "AddBiasTransposeForScore", {<<"v_out1", vc, 0>>},
               <<"v_out2", vc, 0>>, {X, O}, AddBiasTransposeOk(X, O), slot,
               Upd(slot, "v_out2", vc,
                   Write(O, AddBiasTransposeVal(X.val, W(args[t].inst, "v_bias")))),
               "ctx_abtk")

\* line 137
CtxBiasK(t) ==
  /\ pc[t] = "ctx_abtk"
  /\ LET kc == args[t].key.ctx
         X == slot["k_out1"][kc]
         O == slot["k_out2"][kc]
     IN Kernel(t, "AddBiasTransposeForScore", {<<"k_out1", kc, 0>>},
               <<"k_out2", kc, 0>>, {X, O}, AddBiasTransposeOk(X, O), slot,
               Upd(slot, "k_out2", kc,
                   Write(O, AddBiasTransposeVal(X.val, W(args[t].inst, "k_bias")))),
               "ctx_ptrs")

\* lines 138-140
CtxPtrs(t) ==
  /\ pc[t] = "ctx_ptrs"
  /\ loc' = [loc EXCEPT ![t].q_ptr = <<"q_out2", loc[t].devctx, 0>>,
                        ![t].v_ptr = <<"v_out2", args[t].value.ctx, 0>>,
                        ![t].k_ptr = <<"k_out2", args[t].key.ctx, 0>>]
  /\ Goto(t, "score")
  /\ UNCHANGED <<args, out, slot, kcall, ncalls>>

\* ------------------------------------------------------------- self branch
\* lines 142-145
SelfAlloc(t) ==
  /\ pc[t] = "self_alloc"
  /\ LET l == loc[t]
         d == l.devctx
     IN slot' = Upd(slot, "qkv_out1", d,
                    Reshape(slot["qkv_out1"][d],
                            <<3, l.batch_size, l.query_seq_length, l.hidden_size>>,
                            d))
  /\ Goto(t, IF args[t].pre_layernorm THEN "self_copy" ELSE "self_proj")
  /\ UNCHANGED <<args, out, loc, kcall, ncalls>>

\* a kernel call that writes the local tensor layernormed_query, and reads
\* it when R holds it
KernelLocal(t, name, R, ops, ok, before, after, next) ==
  /\ kcall' = KCall(t, name, ops,
                    {<<"layernormed_query", X.ctx, 0>> : X \in R},
                    <<"layernormed_query", before.ctx, 0>>, R, ok)
  /\ loc' = [loc EXCEPT ![t].layernormed_query =
                IF ok THEN [after EXCEPT !.by = CallId] ELSE before]
  /\ IF ok THEN Goto(t, next) ELSE Leave(t, "KernelError", out[t])
  /\ UNCHANGED <<args, out, slot, ncalls>>

\* lines 148-151
SelfCopy(t) ==
  /\ pc[t] = "self_copy"
  /\ LET l == loc[t]
         lq == Reshape(EmptyTensor(l.devctx),
                       <<l.batch_size, l.query_seq_length, l.hidden_size>>,
                       l.devctx)
     IN KernelLocal(t, "Copy", {}, {args[t].query, lq},
                    CopyOk(args[t].query, lq),
                    lq, Write(lq, args[t].query.val), "self_ln")

\* lines 152-153
SelfLayerNorm(t) ==
  /\ pc[t] = "self_ln"
  /\ LET lq == loc[t].layernormed_query
     IN KernelLocal(t, "LayerNorm", {lq}, {lq}, LayerNormOk(lq, args[t].inst),
                    lq, Write(lq, LayerNormVal(lq.val, args[t].inst)),
                    "self_proj")

\* lines 147, 154-159: the operand of the fused projection
SelfQuerySource(t) ==
  IF args[t].pre_layernorm THEN loc[t].layernormed_query ELSE args[t].query

\* lines 154-159; layernormed_query ends with its block
SelfProj(t) ==
  /\ pc[t] = "self_proj"
  /\ LET d == loc[t].devctx
         i == args[t].inst
         A == SelfQuerySource(t)
         O == slot["qkv_out1"][d]
         ok == MatMulOk(A, i.hidden, 3 * i.hidden, O)
         R == IF args[t].pre_layernorm THEN {A} ELSE {}
     IN /\ kcall' = KCall(t, "MatMul", {A, O},
                          {<<"layernormed_query", X.ctx, 0>> : X \in R},
                          <<"qkv_out1", d, 0>>, R, ok)
        /\ slot' = IF ok
                   THEN Stamp(Upd(slot, "qkv_out1", d,
                                  Write(O, MatMulVal(A.val, QKVWeight(i), One,
                                                     O.val, 0))),
                              {}, <<"qkv_out1", d, 0>>, CallId)
                   ELSE slot
        /\ IF ok THEN Goto(t, "self_split")
           ELSE Leave(t, "KernelError", out[t])
  /\ loc' = [loc EXCEPT ![t].layernormed_query = NoLoc.layernormed_query]
  /\ UNCHANGED <<args, out, ncalls>>

\* lines 160-165
SelfSplit(t) ==
  /\ pc[t] = "self_split"
  /\ LET l == loc[t]
         d == l.devctx
         X == slot["qkv_out1"][d]
         O == Reshape(slot["qkv_out2"][d],
                      <<3, l.batch_size, args[t].inst.heads, l.query_seq_length,
                        l.size_per_head>>, d)
     IN Kernel(t, "SplitAddBiasTransposeForScore", {<<"qkv_out1", d, 0>>},
               <<"qkv_out2", d, 0>>, {X, O}, SplitAddBiasTransposeOk(O, X),
               Upd(slot, "qkv_out2", d, O),
               Upd(slot, "qkv_out2", d,
                   Write(O, SplitAddBiasTransposeVal(X.val, QKVBias(args[t].inst)))),
               "self_ptrs")

\* the key and value slices taken in the wrong order
SelfPtrsMut(t) ==
  /\ pc[t] = "self_ptrs"
  /\ loc' = [loc EXCEPT ![t].q_ptr = <<"qkv_out2", loc[t].devctx, 1>>,
                        ![t].k_ptr = <<"qkv_out2", loc[t].devctx, 3>>,
                        ![t].v_ptr = <<"qkv_out2", loc[t].devctx, 2>>]
  /\ heap' = heap + 3
  /\ pc' = [pc EXCEPT ![t] = "score"]
  /\ UNCHANGED <<args, out, slot, kcall, ncalls, lock, entry, log>>

\* lines 166-169: three `new core::Tensor(qkv_out2[i])`; operator() has no
\* `delete` and nothing else holds the pointers
SelfPtrs(t) ==
  /\ pc[t] = "self_ptrs"
  /\ loc' = [loc EXCEPT ![t].q_ptr = <<"qkv_out2", loc[t].devctx, 1>>,
                        ![t].k_ptr = <<"qkv_out2", loc[t].devctx, 2>>,
                        ![t].v_ptr = <<"qkv_out2", loc[t].devctx, 3>>]
  /\ heap' = heap + 3
  /\ pc' = [pc EXCEPT ![t] = "score"]
  /\ UNCHANGED <<args, out, slot, kcall, ncalls, lock, entry, log>>

\* ----------------------------------------------------- common continuation
\* the score product accumulated into the slot (beta = 1.0)
ScoreMut(t) ==
  /\ pc[t] = "score"
  /\ LET l == loc[t]
         d == l.devctx
         Q == Deref(l.q_ptr)
         K == Deref(l.k_ptr)
         O == Reshape(slot["att_score"][d],
                      <<l.batch_size, args[t].inst.heads, l.query_seq_length,
                        l.key_seq_length>>, d)
     IN Kernel(t, "BatchMatMul", {l.q_ptr, l.k_ptr}, <<"att_score", d, 0>>,
               {Q, K, O}, BatchMatMulOk(Q, K, TRUE, O),
               Upd(slot, "att_score", d, O),
               Upd(slot, "att_score", d,
                   Write(O, BatchMatMulVal(Q.val, K.val, "T",
                                           Scaler(l.size_per_head), O.val, 1))),
               "softmax")

\* lines 175-183
Score(t) ==
  /\ pc[t] = "score"
  /\ LET l == loc[t]
         d == l.devctx
         Q == Deref(l.q_ptr)
         K == Deref(l.k_ptr)
         O == Reshape(slot["att_score"][d],
                      <<l.batch_size, args[t].inst.heads, l.query_seq_length,
                        l.key_seq_length>>, d)
     IN Kernel(t, "BatchMatMul", {l.q_ptr, l.k_ptr}, <<"att_score", d, 0>>,
               {Q, K, O}, BatchMatMulOk(Q, K, TRUE, O),
               Upd(slot, "att_score", d, O),
               Upd(slot, "att_score", d,
                   Write(O, BatchMatMulVal(Q.val, K.val, "T",
                                           Scaler(l.size_per_head), O.val, 0))),
               "softmax")

\* the scores scaled a second time by the mask-softmax (scale = scaler)
SoftmaxMut(t) ==
  /\ pc[t] = "softmax"
  /\ LET d == loc[t].devctx
         S == slot["att_score"][d]
         M == args[t].mask
     IN Kernel(t, "ApplyMaskAndSoftmax", {<<"att_score", d, 0>>},
               <<"att_score", d, 0>>, {S, M}, SoftmaxOk(S, M), slot,
               Upd(slot, "att_score", d,
                   Write(S, SoftmaxVal(S.val, M.val,
                                       Scaler(loc[t].size_per_head)))),
               "context")

\* lines 188-190
Softmax(t) ==
  /\ pc[t] = "softmax"
  /\ LET d == loc[t].devctx
         S == slot["att_score"][d]
         M == args[t].mask
     IN Kernel(t, "ApplyMaskAndSoftmax", {<<"att_score", d, 0>>},
               <<"att_score", d, 0>>, {S, M}, SoftmaxOk(S, M), slot,
               Upd(slot, "att_score", d, Write(S, SoftmaxVal(S.val, M.val, One))),
               "context")

\* lines 193-199
Context(t) ==
  /\ pc[t] = "context"
  /\ LET l == loc[t]
         d == l.devctx
         S == slot["att_score"][d]
         V == Deref(l.v_ptr)
         O == Reshape(slot["context_layer"][d],
                      <<l.batch_size, args[t].inst.heads, l.query_seq_length,
                        l.size_per_head>>, d)
     IN Kernel(t, "BatchMatMul", {<<"att_score", d, 0>>, l.v_ptr},
               <<"context_layer", d, 0>>, {S, V, O},
               BatchMatMulOk(S, V, FALSE, O),
               Upd(slot, "context_layer", d, O),
               Upd(slot, "context_layer", d,
                   Write(O, BatchMatMulVal(S.val, V.val, "N", One, O.val, 0))),
               "unshape")

\* lines 201-207
Unshape(t) ==
  /\ pc[t] = "unshape"
  /\ LET l == loc[t]
         d == l.devctx
         X == slot["context_layer"][d]
         O == Reshape(slot["self_attr_out"][d],
                      <<l.batch_size, l.query_seq_length,
                        args[t].inst.heads * l.size_per_head>>, d)
     IN Kernel(t, "TransposeForScore", {<<"context_layer", d, 0>>},
               <<"self_attr_out", d, 0>>, {X, O}, TransposeOk(O, X),
               Upd(slot, "self_attr_out", d, O),
               Upd(slot, "self_attr_out", d, Write(O, TransposeVal(X.val))),
               "outproj")

\* the output left as the matrix [batch * seq, hidden] of the product
OutputShapeMut(l) == <<l.batch_size * l.query_seq_length, l.hidden_size>>

\* lines 209-210
OutputShape(l) == <<l.batch_size, l.query_seq_length, l.hidden_size>>

\* the output projection accumulated into the output tensor (beta = 1.0)
OutProjMut(t) ==
  /\ pc[t] = "outproj"
  /\ LET l == loc[t]
         i == args[t].inst
         U == slot["self_attr_out"][l.devctx]
         O == Reshape(out[t], OutputShape(l), l.devctx)
         ok == MatMulOk(U, i.hidden, i.hidden, O)
         R == Write(O, MatMulVal(U.val, W(i, "dense_weight"), One, O.val, 1))
         rd == {<<"self_attr_out", l.devctx, 0>>}
     IN /\ kcall' = KCall(t, "MatMul", {U, O}, rd, <<>>, {U}, ok)
        /\ slot' = IF ok THEN Stamp(slot, rd, <<>>, CallId) ELSE slot
        /\ out' = [out EXCEPT ![t] = IF ok THEN R ELSE O]
        /\ IF ok THEN Goto(t, "bias") ELSE Leave(t, "KernelError", O)
  /\ UNCHANGED <<args, loc, ncalls>>

\* lines 209-211
OutProj(t) ==
  /\ pc[t] = "outproj"
  /\ LET l == loc[t]
         i == args[t].inst
         U == slot["self_attr_out"][l.devctx]
         O == Reshape(out[t], OutputShape(l), l.devctx)
         ok == MatMulOk(U, i.hidden, i.hidden, O)
         R == Write(O, MatMulVal(U.val, W(i, "dense_weight"), One, O.val, 0))
         rd == {<<"self_attr_out", l.devctx, 0>>}
     IN /\ kcall' = KCall(t, "MatMul", {U, O}, rd, <<>>, {U}, ok)
        /\ slot' = IF ok THEN Stamp(slot, rd, <<>>, CallId) ELSE slot
        /\ out' = [out EXCEPT ![t] = IF ok THEN R ELSE O]
        /\ IF ok THEN Goto(t, "bias") ELSE Leave(t, "KernelError", O)
  /\ UNCHANGED <<args, loc, ncalls>>

\* lines 213-217
Bias(t) ==
  /\ pc[t] = "bias"
  /\ LET i == args[t].inst
         O == out[t]
         Q == args[t].query
     IN IF ~args[t].post_add
        THEN /\ kcall' = KCall(t, "AddBias", {O}, {}, <<>>, {}, AddBiasOk(O, i))
             /\ IF AddBiasOk(O, i)
                THEN /\ out' = [out EXCEPT ![t] =
                                  Write(O, AddBiasVal(O.val, W(i, "dense_bias")))]
                     /\ Goto(t, "return")
                ELSE Leave(t, "KernelError", O) /\ UNCHANGED out
        ELSE /\ kcall' = KCall(t, "AddInputBias", {O, Q}, {}, <<>>, {},
                               AddInputBiasOk(O, Q, i))
             /\ IF AddInputBiasOk(O, Q, i)
                THEN /\ out' = [out EXCEPT ![t] =
                                  Write(O, AddInputBiasVal(O.val, Q.val,
                                                           W(i, "dense_bias")))]
                     /\ Goto(t, "return")
                ELSE Leave(t, "KernelError", O) /\ UNCHANGED out
  /\ UNCHANGED <<args, loc, slot, ncalls>>

\* line 218
Return(t) ==
  /\ pc[t] = "return"
  /\ Leave(t, "ok", out[t])
  /\ UNCHANGED <<args, out, loc, slot, kcall, ncalls>>

\* ------------------------------------------------------------ specification
\* the steps of operator() under the lock_guard
Run(t) ==
    \/ Validate(t) \/ Branch(t)
    \/ CtxAlloc(t) \/ CtxCopy(t) \/ CtxLayerNorm(t) \/ CtxProjQ(t)
    \/ CtxProjK(t) \/ CtxProjV(t) \/ CtxReshape(t) \/ CtxBiasQ(t)
    \/ CtxBiasV(t) \/ CtxBiasK(t) \/ CtxPtrs(t)
    \/ SelfAlloc(t) \/ SelfCopy(t) \/ SelfLayerNorm(t) \/ SelfProj(t)
    \/ SelfSplit(t) \/ SelfPtrs(t)
    \/ Score(t) \/ Softmax(t) \/ Context(t) \/ Unshape(t) \/ OutProj(t)
    \/ Bias(t) \/ Return(t)

Next == \E t \in Threads : Call(t) \/ Acquire(t) \/ Run(t)

Spec == Init /\ [][Next]_vars

\* The calls of the fair specification, one for each branch and each way
\* out of operator(): a `context` and a `self` call that return, a call that
\* a check stops and a call that a kernel refuses.
FairRequests ==
  { Req(InstA, QX, QX, QX, Mask("c0"), "context", TRUE, TRUE),
    Req(InstA, QX, QX, QX, Mask("c0"), "self", TRUE, TRUE),
    Req(InstA, QX, QX, QX, Mask("c0"), "cross", FALSE, TRUE),
    Req(InstA, KY, T(<<1, 2, 4>>, "c0", "z"), QX,
        Mask("c0"), "context", FALSE, FALSE) }

FairNext ==
  \E t \in Threads : Call(t) \/ AcquireOf(t, FairRequests) \/ Run(t)

\* every thread is scheduled again and again: a thread for which the mutex
\* stays free takes it, and the statement or kernel that the holder is at
\* ends
FairSpec ==
  /\ Init /\ [][FairNext]_vars
  /\ \A t \in Threads :
       WF_vars(AcquireOf(t, FairRequests)) /\ WF_vars(Run(t))

\* ================================================================== claims
Inside(t) == pc[t] \notin {"idle", "lock"}
Ended == {log[i] : i \in DOMAIN log}
Rank3(X) == Len(X.shape) = 3
SameResult(X, Y) == X.shape = Y.shape /\ X.val = Y.val

\* C1: at most one thread is between the lock acquisition and the end of
\* operator(), that thread holds the mutex, and while it is inside every
\* step that touches a scratch slot, issues a kernel or writes an output
\* tensor is a step of that thread
C1_MutualExclusion ==
  /\ [](/\ \A t, u \in Threads : Inside(t) /\ Inside(u) => t = u
        /\ \A t \in Threads : Inside(t) <=> lock = t)
  /\ [][\A t \in Threads :
          Inside(t) /\ (slot' # slot \/ out' # out \/ kcall' # kcall)
            => pc'[t] # pc[t]]_vars

C1_Witness ==
  \E t, u \in Threads : pc[t] = "softmax" /\ pc[u] = "lock"

\* the attention output as a function of the arguments of one call alone
PureQuerySource(r) ==
  IF r.pre_layernorm THEN LayerNormVal(r.query.val, r.inst) ELSE r.query.val

PureHeads(r) ==
  IF r.attn_type = "context"
  THEN << AddBiasTransposeVal(
            MatMulVal(PureQuerySource(r), W(r.inst, "q_weight"), One, Uninit, 0),
            W(r.inst, "q_bias")),
          AddBiasTransposeVal(
            MatMulVal(r.key.val, W(r.inst, "k_weight"), One, Uninit, 0),
            W(r.inst, "k_bias")),
          AddBiasTransposeVal(
            MatMulVal(r.value.val, W(r.inst, "v_weight"), One, Uninit, 0),
            W(r.inst, "v_bias")) >>
  ELSE LET s == SplitAddBiasTransposeVal(
                  MatMulVal(PureQuerySource(r), QKVWeight(r.inst), One, Uninit, 0),
                  QKVBias(r.inst))
       IN <<IndexVal(s, 0), IndexVal(s, 1), IndexVal(s, 2)>>

PureUnshaped(r) ==
  LET h == PureHeads(r)
      score == SoftmaxVal(
                 BatchMatMulVal(h[1], h[2], "T",
                                Scaler(r.query.shape[3] \div r.inst.heads),
                                Uninit, 0),
                 r.mask.val, One)
  IN TransposeVal(BatchMatMulVal(score, h[3], "N", One, Uninit, 0))

PureOutput(r) ==
  LET o == MatMulVal(PureUnshaped(r), W(r.inst, "dense_weight"), One, Uninit, 0)
  IN IF r.post_add
     THEN AddInputBiasVal(o, r.query.val, W(r.inst, "dense_bias"))
     ELSE AddBiasVal(o, W(r.inst, "dense_bias"))

\* C2: the output of every call that returned is the function PureOutput of
\* that call's own arguments, whatever calls went before it; so two calls
\* with the same arguments return the same output
C2_NoCrossCallContamination ==
  /\ \A e \in Ended : e.status = "ok" => e.out.val = PureOutput(e.call)
  /\ \A e, f \in Ended :
       e.status = "ok" /\ f.status = "ok" /\ e.call = f.call
         => SameResult(e.out, f.out)

\* a call returned after a call of another variant and shape that used the
\* same device context, hence the same common scratch slots
C2_Witness ==
  \E i, j \in DOMAIN log :
    /\ i < j
    /\ log[i].status = "ok" /\ log[j].status = "ok"
    /\ log[i].call.attn_type # log[j].call.attn_type
    /\ log[i].call.query.shape # log[j].call.query.shape
    /\ log[i].call.query.ctx = log[j].call.query.ctx

\* a context call on key == value == query and a self call on that query
Twins(e, f) ==
  /\ e.status = "ok" /\ f.status = "ok"
  /\ e.call.attn_type = "context" /\ f.call.attn_type = "self"
  /\ e.call.key = e.call.query /\ e.call.value = e.call.query
  /\ e.call.query = f.call.query /\ e.call.mask = f.call.mask
  /\ e.call.inst = f.call.inst
  /\ e.call.pre_layernorm = f.call.pre_layernorm
  /\ e.call.post_add = f.call.post_add

\* C3 as claimed: a context call with key == value == query returns what the
\* self call on the same query returns, for every preLayerNorm and postAdd
C3_VariantEquivalence_Claimed ==
  \A e, f \in Ended : Twins(e, f) => SameResult(e.out, f.out)

\* C3 amended: the two variants agree when preLayerNorm is false (for either
\* postAdd); with preLayerNorm the context branch normalises the query only
C3_VariantEquivalence ==
  \A e, f \in Ended :
    Twins(e, f) /\ ~e.call.pre_layernorm => SameResult(e.out, f.out)

C3_Witness ==
  \E e, f \in Ended : Twins(e, f) /\ ~e.call.pre_layernorm /\ e.call.post_add

\* C4: a call with an attn_type other than "self" and "context", and inputs
\* that pass the other checks, ends with InvalidArgument and leaves the
\* caller's output tensor as it was
C4_InvalidVariant ==
  \A e \in Ended :
    /\ e.call.attn_type \notin {"self", "context"}
    /\ e.call.key.ctx = e.call.mask.ctx
    /\ Rank3(e.call.key) /\ Rank3(e.call.value) /\ Rank3(e.call.query)
    /\ e.call.key.shape[1] = e.call.value.shape[1]
    => e.status = "InvalidArgument" /\ e.out = e.before

C4_Witness ==
  \E e \in Ended :
    /\ e.call.attn_type \notin {"self", "context"}
    /\ e.status = "InvalidArgument"
    /\ e.before.shape # <<>>

\* C5 as claimed: rank-3 key and value with different hidden sizes are
\* rejected by the validation, and this check rejects no call whose key and
\* value have the same hidden size
C5_HiddenSizeCheck_Claimed ==
  \A e \in Ended :
    Rank3(e.call.key) /\ Rank3(e.call.value)
      => /\ e.call.key.shape[3] # e.call.value.shape[3]
            => e.status \in ValidationErrors
         /\ e.call.key.shape[3] = e.call.value.shape[3]
            => e.status # "KeyValueMismatch"

C7_OutputShape ==
  \A e \in Ended : e.status = "ok" => e.out.shape = e.call.query.shape

C7_Witness ==
  \E e \in Ended :
    /\ e.status = "ok"
    /\ e.call.attn_type = "context"
    /\ e.call.key.shape[2] # e.call.query.shape[2]
    /\ e.before.shape # <<>> /\ e.before.shape # e.call.query.shape

\* C8 as claimed: the tensor operands of every kernel call that operator()
\* issues are all on one device context
C8_OneDeviceContext_Claimed ==
  Cardinality(kcall.ctxs) <= 1

\* C9: from the begin of a call to its end, by return or by exception, the
\* key, value, query and mask tensors are as the caller passed them
C9_InputsReadOnly ==
  /\ \A t \in Threads : pc[t] # "idle" => args[t] = entry[t].args
  /\ \A e \in Ended : e.args = e.call

\* the layer normalisation of a context call has run, on the scratch copy
C9_Witness ==
  \E t \in Threads :
    /\ pc[t] = "ctx_projq"
    /\ args[t].pre_layernorm
    /\ slot["q_out2"][loc[t].devctx].val = LayerNormVal(args[t].query.val, args[t].inst)

\* C10: at the return the output is U x denseWeight + denseBias, plus the
\* caller's query when postAdd is set, U being the unshaped context; nothing
\* of the output tensor's earlier content is in it
C10_ResidualBias ==
  \A t \in Threads :
    pc[t] = "return" =>
      LET i == args[t].inst
          U == slot["self_attr_out"][loc[t].devctx].val
          P == <<"mm", U, W(i, "dense_weight"), One>>
      IN out[t].val =
           IF args[t].post_add
           THEN <<"addib", P, entry[t].args.query.val, W(i, "dense_bias")>>
           ELSE <<"addb", P, W(i, "dense_bias")>>

C10_Witness ==
  \E t \in Threads :
    /\ pc[t] = "return"
    /\ args[t].post_add /\ args[t].pre_layernorm
    /\ entry[t].out.shape # <<>>

\* C11: the score product is issued with alpha = 1/sqrt(headSize), where
\* headSize is hiddenSize divided by the number of heads, and beta = 0 (the
\* term of the scores has no accumulated operand); the mask-softmax is then
\* issued with scale 1.0, so the scores are scaled once, in both variants.
C11_ScaledOnce ==
  \A t \in Threads :
    LET l == loc[t]
        S == slot["att_score"][l.devctx]
        headSize == args[t].query.shape[3] \div args[t].inst.heads
        scores == <<"bmm", Deref(l.q_ptr).val, Deref(l.k_ptr).val, "T",
                    Scaler(headSize)>>
    IN /\ pc[t] = "softmax" => S.val = scores
       /\ pc[t] = "context" =>
            S.val = <<"softmax", scores, args[t].mask.val, One>>

C11_Witness ==
  /\ \E t \in Threads : pc[t] = "context" /\ IsSelf(args[t].attn_type)
  /\ \E e \in Ended : e.status = "ok" /\ IsContext(e.call.attn_type)

\* C12: at the return of every call every tensor object that operator()
\* created for the head-major query, key and value has been released: while
\* no call is running, the number of live tensor objects made by operator()
\* is what it was before the first call, however many `self` calls ran.
C12_NoLeak_Claimed ==
  (\A t \in Threads : ~Inside(t)) => heap = 0

\* C13: for every call that passes validation, reinterpreting a projected
\* buffer [batch, seq, hiddenSize] as [batch, seq, numHeads, headSize] keeps
\* the number of elements: numHeads * headSize = hiddenSize, headSize being
\* the integer quotient of hiddenSize by numHeads.
C13_ReshapeKeepsCount_Claimed ==
  \A t \in Threads :
    LET l == loc[t]
        r == args[t]
        q1 == slot["q_out1"][l.devctx]
        k1 == slot["k_out1"][r.key.ctx]
        v1 == slot["v_out1"][r.value.ctx]
    IN /\ pc[t] \notin {"idle", "lock", "validate"} =>
            r.inst.heads * l.size_per_head = l.hidden_size
       /\ pc[t] = "ctx_abtq" =>
            /\ Numel(q1.shape)
                 = l.batch_size * l.query_seq_length * l.hidden_size
            /\ Numel(k1.shape)
                 = l.batch_size * l.key_seq_length * l.hidden_size
            /\ Numel(v1.shape)
                 = l.batch_size * l.key_seq_length * l.hidden_size

\* C14: for every `context` call that passes validation, the key and value
\* projection buffers, shaped [query.shape[0], key.shape[1], query.shape[2]],
\* have exactly key.shape[0] * key.shape[1] and value.shape[0] *
\* value.shape[1] rows, and the operands of the score product, Q [batch,
\* heads, querySeqLen, headSize] and K [batch, heads, keySeqLen, headSize]
\* transposed, give exactly the score buffer's shape [batch, heads,
\* querySeqLen, keySeqLen].
C14_ProjectionsConformable_Claimed ==
  \A t \in Threads :
    LET l == loc[t]
        r == args[t]
        k1 == slot["k_out1"][r.key.ctx]
        v1 == slot["v_out1"][r.value.ctx]
        S == slot["att_score"][l.devctx]
        Q == Deref(l.q_ptr)
        K == Deref(l.k_ptr)
    IN /\ pc[t] \in {"ctx_copy", "ctx_ln", "ctx_projq", "ctx_projk",
                      "ctx_projv"} =>
            /\ k1.shape = <<r.query.shape[1], r.key.shape[2], r.query.shape[3]>>
            /\ v1.shape = <<r.query.shape[1], r.key.shape[2], r.query.shape[3]>>
            /\ k1.shape[1] * k1.shape[2] = r.key.shape[1] * r.key.shape[2]
            /\ v1.shape[1] * v1.shape[2] = r.value.shape[1] * r.value.shape[2]
       /\ pc[t] = "softmax" /\ IsContext(r.attn_type) =>
            /\ Q.shape = <<l.batch_size, r.inst.heads, l.query_seq_length,
                           l.size_per_head>>
            /\ K.shape = <<l.batch_size, r.inst.heads, l.key_seq_length,
                           l.size_per_head>>
            /\ S.shape = <<l.batch_size, r.inst.heads, l.query_seq_length,
                           l.key_seq_length>>

\* no product has been accumulated into a scratch buffer (beta = 0)
BetaZero ==
  \A n \in Slots, c \in Ctxs : slot[n][c].val[1] \notin {"mma", "bmma"}

\* C15, as claimed: every scratch tensor that a kernel reads was written, in
\* the whole of the shape it is read with, earlier in the same call and after
\* the tensor's most recent Reshape; no kernel reads what an earlier call,
\* ended or failed, left in a slot; every product written to a scratch
\* buffer has beta = 0.
C15_WriteBeforeRead_Claimed == kcall.settled /\ BetaZero

\* C15, amended: every scratch tensor that a kernel reads was written, in the
\* whole of the shape it is read with, by a kernel of the same call since its
\* storage was allocated (a Reshape between the write and the read reuses
\* the storage); no kernel reads what an earlier call left in a slot; every
\* product written to a scratch buffer has beta = 0.
C15_WriteBeforeRead == kcall.written /\ BetaZero

C15_Witness ==
  /\ kcall.id = 2 /\ kcall.name = "AddBiasTransposeForScore"
  /\ ~kcall.settled
  /\ \E e \in Ended : e.status = "KernelError"
  /\ \E t \in Threads : pc[t] = "ctx_abtv"

\* slot n of context c holds a value of the running call that is still to
\* be read
Live(n, c) ==
  lock # NoThread /\ slot[n][c].unread /\ slot[n][c].by = CallId

\* the step issues a kernel call that reads the whole of slot n of context c
ReadsNow(n, c) == kcall' # kcall /\ <<n, c, 0>> \in kcall'.rd

\* C16, as claimed: within a call no scratch slot is reshaped or written
\* while a value written to it earlier in the call is still to be read; a
\* step may only touch such a slot by reading it (a kernel that reads it may
\* write its result in place).
C16_NoClobber_Claimed ==
  [][\A n \in Slots, c \in Ctxs :
       Live(n, c) /\ ~ReadsNow(n, c) => slot'[n][c] = slot[n][c]]_vars

\* C16, amended: within a call no scratch slot is written or given new
\* storage while a value written to it earlier in the call is still to be
\* read; a Reshape of such a slot reuses its storage and leaves the content
\* in place.  q_out2 is reshaped and written as the head-major query only
\* after the query projection has read it, and qkv_out2 is neither reshaped
\* nor written after the split.
C16_NoClobber ==
  [][\A n \in Slots, c \in Ctxs :
       Live(n, c) /\ ~ReadsNow(n, c) =>
         /\ slot'[n][c].val \in {slot[n][c].val, Stale(slot[n][c].val)}
         /\ slot'[n][c].cap = slot[n][c].cap
         /\ slot'[n][c].ctx = slot[n][c].ctx
         /\ slot'[n][c].wn = slot[n][c].wn
         /\ ~(kcall' # kcall /\ kcall'.wr = <<n, c, 0>>)]_vars

C16_Witness ==
  \E t \in Threads :
    /\ pc[t] = "ctx_abtv" /\ args[t].pre_layernorm
    /\ Live("q_out2", loc[t].devctx)
    /\ slot["q_out1"][loc[t].devctx].ws = FALSE
    /\ \E e \in Ended : IsSelf(e.call.attn_type) /\ e.status = "ok"

\* C17: the mutex is released on every way out of operator(), by return, by
\* a failed check and by a failing kernel (the step that takes a thread out
\* leaves the mutex free), and with fairly scheduled threads and kernels that
\* end, every call that was begun ends: no thread waits for the mutex for
\* ever.
C17_LockReleased ==
  /\ [][\A t \in Threads :
          Inside(t) /\ pc'[t] \in {"idle", "lock"} => lock' = NoThread]_vars
  /\ \A t \in Threads : (pc[t] # "idle") ~> (pc[t] = "idle")

C17_Witness ==
  /\ Len(log) = 1 /\ log[1].status = "KernelError"
  /\ lock \in Threads \ {log[1].thread}
  /\ ncalls = 2

\* two ended calls that differ at most in the key and value tensors
SameButKeyValue(e, f) ==
  /\ e.call.inst = f.call.inst
  /\ e.call.query = f.call.query
  /\ e.call.mask = f.call.mask
  /\ e.call.attn_type = f.call.attn_type
  /\ e.call.pre_layernorm = f.call.pre_layernorm
  /\ e.call.post_add = f.call.post_add

\* C18: the `self` variant ignores the contents and the sequence length of
\* key and value: two `self` calls that agree on query, mask, weights and
\* flags and differ only in key and value, both passing validation, give the
\* same output, and the key sequence length of a `self` call, and with it
\* the last dimension of the score buffer, is query.shape[1].
C18_SelfIgnoresKeyValue ==
  /\ \A e, f \in Ended :
       /\ IsSelf(e.call.attn_type) /\ SameButKeyValue(e, f)
       /\ e.status \notin ValidationErrors /\ f.status \notin ValidationErrors
       => e.status = f.status /\ SameResult(e.out, f.out)
  /\ \A t \in Threads :
       IsSelf(args[t].attn_type) =>
         /\ pc[t] \notin {"idle", "lock", "validate"} =>
              loc[t].key_seq_length = args[t].query.shape[2]
         /\ pc[t] \in {"softmax", "context"} =>
              slot["att_score"][loc[t].devctx].shape[4] = args[t].query.shape[2]

C18_Witness ==
  \E e, f \in Ended :
    /\ IsSelf(e.call.attn_type) /\ SameButKeyValue(e, f)
    /\ e.status = "ok" /\ f.status = "ok"
    /\ e.call.key.val # f.call.key.val
    /\ e.call.value.val # f.call.value.val
    /\ e.call.key.shape[2] # f.call.key.shape[2]

====
